---------------------------- MODULE Spec2Model ----------------------------
(***************************************************************************)
(* Model of ip_calc.py: the IPv4 CIDR calculator.                          *)
(*                                                                         *)
(* A Python str is a sequence of one-character strings, a Python list of   *)
(* ints is a sequence of integers.  A Python int whose value may exceed    *)
(* the 32-bit range of TLC's integers (the host count, an address read as *)
(* one 32-bit number) is a pair <<hi, lo>> standing for hi * 2^16 + lo     *)
(* with 0 <= lo < 2^16.                                                    *)
(*                                                                         *)
(* The run modelled is the program's __main__: input() reads one raw       *)
(* address, get_info prints the nine fields in order.                      *)
(***************************************************************************)
EXTENDS Integers, Sequences, FiniteSets, TLC

VARIABLES
    given,              \* the address, prefix and spelling typed on stdin
    raw_address,        \* the string input() returned
    pc,                 \* the next statement of __main__ / get_info
    stdout,             \* the printed fields: <<label, value>>
    network_mask,       \* list returned by get_network_mask (line 71)
    network_address,    \* list built at lines 33-36
    broadcast_address,  \* list built at lines 52-55
    first_usable,       \* network_address after line 93
    penultimate_ip      \* penultimate_ip after line 120

vars == <<given, raw_address, pc, stdout, network_mask, network_address,
          broadcast_address, first_usable, penultimate_ip>>

---------------------------------------------------------------------------
(* Program constants *)

FULL_BYTE == 255

\* the base of the two-limb representation of a Python int
LIMB == 2 ^ 16

---------------------------------------------------------------------------
(* Bounds of the inputs *)

\* the widest zero-filled spelling of an octet: 17 typed as 017
MaxWidth == 3

Prefixes == 0..32

Octets == 0..255

\* addresses at the edges of the octet range and of the subnet sizes
EdgeAddresses ==
    { <<a, b, c, d>> : a \in {0, 10, 255}, b \in {0, 255}, c \in {0, 255},
                       d \in {0, 1, 2, 3, 128, 177, 205, 252, 253, 254, 255} }

\* one address for every first octet
ClassAddresses == { <<a, 168, 1, 15>> : a \in Octets }

\* the addresses of the doctests
DocAddresses ==
    { <<91, 124, 230, 205>>, <<192, 168, 1, 15>>, <<172, 25, 255, 255>>,
      <<172, 32, 0, 0>>, <<225, 124, 230, 205>>, <<10, 205, 13, 24>>,
      <<215, 17, 125, 177>> }

---------------------------------------------------------------------------
(* Python's int arithmetic *)

Pow2(k) == 2 ^ k

\* x & y on Python ints (two's complement of unbounded width)
RECURSIVE BitAnd(_, _)
BitAnd(x, y) ==
    IF x = 0 \/ y = 0 THEN 0
    ELSE IF x = -1 THEN y
    ELSE IF y = -1 THEN x
    ELSE (x % 2) * (y % 2) + 2 * BitAnd(x \div 2, y \div 2)

\* x | y on Python ints
RECURSIVE BitOr(_, _)
BitOr(x, y) ==
    IF x = 0 THEN y
    ELSE IF y = 0 THEN x
    ELSE IF x = -1 \/ y = -1 THEN -1
    ELSE (IF x % 2 = 1 \/ y % 2 = 1 THEN 1 ELSE 0)
         + 2 * BitOr(x \div 2, y \div 2)

\* x ^ y on Python ints
RECURSIVE BitXor(_, _)
BitXor(x, y) ==
    IF x = 0 THEN y
    ELSE IF y = 0 THEN x
    ELSE IF x = -1 THEN -y - 1
    ELSE IF y = -1 THEN -x - 1
    ELSE ((x + y) % 2) + 2 * BitXor(x \div 2, y \div 2)

\* a Python int as <<hi, lo>>, value hi * 2^16 + lo, 0 <= lo < 2^16
BigNorm(hi, lo) == <<hi + (lo \div LIMB), lo % LIMB>>

BigOfInt(n) == BigNorm(0, n)

BigSub(x, y) == BigNorm(x[1] - y[1], x[2] - y[2])

\* x * y for x, y >= 0
BigMul(x, y) ==
    BigNorm(x[1] * y[1] * LIMB + x[1] * y[2] + x[2] * y[1], x[2] * y[2])

\* base ** e for e >= 0, by squaring as CPython's long_pow does
RECURSIVE BigPow(_, _)
BigPow(base, e) ==
    IF e = 0 THEN BigOfInt(1)
    ELSE LET half == BigPow(base, e \div 2)
             square == BigMul(half, half)
         IN  IF e % 2 = 0 THEN square ELSE BigMul(square, BigOfInt(base))

---------------------------------------------------------------------------
(* Python's str operations *)

Digits == <<"0", "1", "2", "3", "4", "5", "6", "7", "8", "9">>

DigitValue(c) == (CHOOSE i \in 1..10 : Digits[i] = c) - 1

\* str(n) for n >= 0
RECURSIVE StrNat(_)
StrNat(n) ==
    IF n < 10 THEN <<Digits[n + 1]>>
    ELSE Append(StrNat(n \div 10), Digits[(n % 10) + 1])

\* str(x) for an int x
py_str(x) == IF x < 0 THEN <<"-">> \o StrNat(-x) ELSE StrNat(x)

\* int(s) for an optional sign followed by decimal digits
RECURSIVE IntNat(_)
IntNat(s) ==
    IF s = <<>> THEN 0
    ELSE 10 * IntNat(SubSeq(s, 1, Len(s) - 1)) + DigitValue(s[Len(s)])

py_int(s) ==
    IF s[1] = "-" THEN -IntNat(Tail(s))
    ELSE IF s[1] = "+" THEN IntNat(Tail(s))
    ELSE IntNat(s)

\* s.split(sep) and s.rsplit(sep) with no maxsplit: the same list
RECURSIVE py_split(_, _)
py_split(s, sep) ==
    IF \A i \in 1..Len(s) : s[i] # sep THEN <<s>>
    ELSE LET i == CHOOSE k \in 1..Len(s) :
                      s[k] = sep /\ \A j \in 1..(k - 1) : s[j] # sep
         IN  <<SubSeq(s, 1, i - 1)>> \o py_split(SubSeq(s, i + 1, Len(s)), sep)

\* sep.join(parts)
RECURSIVE py_join(_, _)
py_join(sep, parts) ==
    IF parts = <<>> THEN <<>>
    ELSE IF Len(parts) = 1 THEN parts[1]
    ELSE parts[1] \o <<sep>> \o py_join(sep, Tail(parts))

\* '{:08b}'.format(byte): binary digits, zero-padded to at least 8
RECURSIVE BinNat(_)
BinNat(n) ==
    IF n < 2 THEN <<Digits[n + 1]>>
    ELSE Append(BinNat(n \div 2), Digits[(n % 2) + 1])

RECURSIVE ZeroFill(_, _)
ZeroFill(s, width) ==
    IF Len(s) >= width THEN s ELSE ZeroFill(<<"0">> \o s, width)

format_08b(byte) ==
    IF byte < 0 THEN <<"-">> \o ZeroFill(BinNat(-byte), 7)
    ELSE ZeroFill(BinNat(byte), 8)

---------------------------------------------------------------------------
(* ip_calc.py *)

get_ip_from_raw_address(raw) == py_split(raw, "/")[1]

split_address(raw) ==
    LET ip_address == get_ip_from_raw_address(raw)
        parts == py_split(ip_address, ".")
    IN  [i \in 1..Len(parts) |-> py_int(parts[i])]

join_address(bytes_lst) ==
    py_join(".", [i \in 1..Len(bytes_lst) |-> py_str(bytes_lst[i])])

\* a bug: the top bit is left out of the inversion mask
InvertByte_7bit(byte) == BitXor(byte, 127)

\* line 269: byte ^ FULL_BYTE
InvertByte(byte) == BitXor(byte, FULL_BYTE)

invert_address(bytes_lst) ==
    [i \in 1..Len(bytes_lst) |-> InvertByte(bytes_lst[i])]

\* a bug: the bits of a byte are filled from the least significant end
MaskBit_lsb(bit) == Pow2(bit % 8)

\* line 220: 1 << (7 - bit % 8)
MaskBit(bit) == Pow2(7 - (bit % 8))

\* lines 219-220: what the iterations bit = from, ..., to - 1 of the loop
\* add to mask[idx] (idx counted from 0, as bit // 8 is)
RECURSIVE MaskLoop(_, _, _)
MaskLoop(idx, from, to) ==
    IF from >= to THEN 0
    ELSE (IF from \div 8 = idx THEN MaskBit(from) ELSE 0)
         + MaskLoop(idx, from + 1, to)

Min(a, b) == IF a <= b THEN a ELSE b

\* lines 216-222.  Only the iterations with bit // 8 = idx touch mask[idx]:
\* they lie in 8 * idx .. 8 * idx + 7.
get_network_mask(raw) ==
    LET num_bits == py_int(py_split(raw, "/")[2])
        mask == <<0, 0, 0, 0>>
    IN  [k \in 1..4 |->
            mask[k] + MaskLoop(k - 1, 8 * (k - 1), Min(8 * k, num_bits))]

\* a bug: | for &
NetworkByte_or(byte, mask_byte) == BitOr(byte, mask_byte)

\* line 36
NetworkByte(byte, mask_byte) == BitAnd(byte, mask_byte)

\* lines 31-36: the list network_address
network_address_list(raw) ==
    LET ip_address == split_address(raw)
        mask == get_network_mask(raw)
    IN  [idx \in 1..4 |-> NetworkByte(ip_address[idx], mask[idx])]

get_network_address_from_raw_address(raw) ==
    join_address(network_address_list(raw))

\* a bug: ^ for |
BroadcastByte_xor(byte, broadcast_mask_byte) ==
    BitXor(byte, broadcast_mask_byte)

\* line 55
BroadcastByte(byte, broadcast_mask_byte) == BitOr(byte, broadcast_mask_byte)

\* lines 48-55: the list broadcast_address
broadcast_address_list(raw) ==
    LET ip_address == split_address(get_ip_from_raw_address(raw))
        mask == get_network_mask(raw)
        broadcast_mask == invert_address(mask)
    IN  [idx \in 1..Len(ip_address) |->
            BroadcastByte(ip_address[idx], broadcast_mask[idx])]

get_broadcast_address_from_raw_address(raw) ==
    join_address(broadcast_address_list(raw))

get_binary_mask_from_raw_address(raw) ==
    LET mask == get_network_mask(raw)
        network_binary_mask == [i \in 1..Len(mask) |-> format_08b(mask[i])]
    IN  \* join_address on a list of strs: str(s) is s itself
        py_join(".", network_binary_mask)

\* a bug: the increment is 2
NextAfter_by_two(network) == [network EXCEPT ![Len(network)] = @ + 2]

\* line 93: network_address[-1] += 1
NextAfter(network) == [network EXCEPT ![Len(network)] = @ + 1]

\* lines 89-93: the list network_address after the increment
first_usable_list(raw) ==
    NextAfter(split_address(get_network_address_from_raw_address(raw)))

get_first_usable_ip_address_from_raw_address(raw) ==
    join_address(first_usable_list(raw))

\* lines 111 and 120: lst[-1] -= 1
StepBack(lst) == [lst EXCEPT ![Len(lst)] = @ - 1]

\* lines 107-120: the list penultimate_ip after the second decrement
penultimate_ip_list(raw) ==
    LET broadcast == StepBack(
            split_address(get_broadcast_address_from_raw_address(raw)))
        penultimate == [idx \in 1..Len(broadcast) |->
            BitAnd(BitOr(broadcast[idx], broadcast[idx]), broadcast[idx])]
    IN  StepBack(penultimate)

get_penultimate_usable_ip_address_from_raw_address(raw) ==
    join_address(penultimate_ip_list(raw))

\* a bug: a negative count is clamped to 0
HostsOf_clamped(num_network_bits) ==
    LET hosts == BigSub(BigPow(2, 32 - num_network_bits), BigOfInt(2))
    IN  IF hosts[1] < 0 THEN BigOfInt(0) ELSE hosts

\* a bug: only one address is taken off
HostsOf_minus_one(num_network_bits) ==
    BigSub(BigPow(2, 32 - num_network_bits), BigOfInt(1))

\* line 140: 2 ** (32 - num_network_bits) - 2
HostsOf(num_network_bits) ==
    BigSub(BigPow(2, 32 - num_network_bits), BigOfInt(2))

get_number_of_usable_hosts_from_raw_address(raw) ==
    HostsOf(py_int(py_split(raw, "/")[2]))

\* a bug: class E runs to 255
ClassOf_wide_e(first) ==
    IF 1 <= first /\ first <= 126 THEN "A"
    ELSE IF 128 <= first /\ first <= 191 THEN "B"
    ELSE IF 192 <= first /\ first <= 223 THEN "C"
    ELSE IF 224 <= first /\ first <= 239 THEN "D"
    ELSE IF 240 <= first /\ first <= 255 THEN "E"
    ELSE "Unknown class"

\* lines 160-175
ClassOf(first) ==
    IF 1 <= first /\ first <= 126 THEN "A"
    ELSE IF 128 <= first /\ first <= 191 THEN "B"
    ELSE IF 192 <= first /\ first <= 223 THEN "C"
    ELSE IF 224 <= first /\ first <= 239 THEN "D"
    ELSE IF 240 <= first /\ first <= 247 THEN "E"
    ELSE "Unknown class"

get_ip_class_from_raw_address(raw) == ClassOf(split_address(raw)[1])

check_private_ip_address_from_raw_address(raw) ==
    LET ip_address == split_address(raw)
        is_first_block == ip_address[1] = 10
        is_second_block == ip_address[1] = 172
                           /\ 16 <= ip_address[2] /\ ip_address[2] <= 31
        is_third_block == SubSeq(ip_address, 1, 2) = <<192, 168>>
    IN  is_first_block \/ is_second_block \/ is_third_block

---------------------------------------------------------------------------
(* The run: input(), then get_info *)

\* the three decimal digits of an octet, leading zeros dropped
Canonical(octet) ==
    LET ds == <<octet \div 100, (octet \div 10) % 10, octet % 10>>
        first == IF ds[1] # 0 THEN 1 ELSE IF ds[2] # 0 THEN 2 ELSE 3
    IN  [i \in 1..(4 - first) |-> Digits[ds[first + i - 1] + 1]]

\* the octet as typed, zero-filled to `width` characters
Typed(octet, width) == ZeroFill(Canonical(octet), width)

\* the line typed: the four octets, "/" and the prefix
Spell(addr, width, prefix) ==
    Typed(addr[1], width) \o <<".">> \o Typed(addr[2], width) \o <<".">> \o
    Typed(addr[3], width) \o <<".">> \o Typed(addr[4], width) \o <<"/">> \o
    Canonical(prefix)

Inputs ==
    { [addr |-> a, prefix |-> p, width |-> w] :
        a \in EdgeAddresses \cup DocAddresses, p \in Prefixes,
        w \in {1, MaxWidth} }
    \cup { [addr |-> a, prefix |-> 24, width |-> 1] : a \in ClassAddresses }

NoInput == [addr |-> <<>>, prefix |-> 0, width |-> 1]

Init ==
    /\ given = NoInput
    /\ raw_address = <<>>
    /\ pc = "input"
    /\ stdout = <<>>
    /\ network_mask = <<>>
    /\ network_address = <<>>
    /\ broadcast_address = <<>>
    /\ first_usable = <<>>
    /\ penultimate_ip = <<>>

\* line 307: input()
Input ==
    /\ pc = "input"
    /\ \E g \in Inputs :
          /\ given' = g
          /\ raw_address' = Spell(g.addr, g.width, g.prefix)
    /\ pc' = "ip"
    /\ UNCHANGED <<stdout, network_mask, network_address, broadcast_address,
                   first_usable, penultimate_ip>>

\* line 289
PrintIp ==
    /\ pc = "ip"
    /\ stdout' = Append(stdout,
            <<"IP address:", get_ip_from_raw_address(raw_address)>>)
    /\ pc' = "network"
    /\ UNCHANGED <<given, raw_address, network_mask, network_address,
                   broadcast_address, first_usable, penultimate_ip>>

\* line 290
PrintNetwork ==
    /\ pc = "network"
    /\ network_address' = network_address_list(raw_address)
    /\ stdout' = Append(stdout,
            <<"Network Address:",
              get_network_address_from_raw_address(raw_address)>>)
    /\ pc' = "broadcast"
    /\ UNCHANGED <<given, raw_address, network_mask, broadcast_address,
                   first_usable, penultimate_ip>>

\* line 291
PrintBroadcast ==
    /\ pc = "broadcast"
    /\ broadcast_address' = broadcast_address_list(raw_address)
    /\ stdout' = Append(stdout,
            <<"Broadcast Address:",
              get_broadcast_address_from_raw_address(raw_address)>>)
    /\ pc' = "mask"
    /\ UNCHANGED <<given, raw_address, network_mask, network_address,
                   first_usable, penultimate_ip>>

\* line 292
PrintBinaryMask ==
    /\ pc = "mask"
    /\ network_mask' = get_network_mask(raw_address)
    /\ stdout' = Append(stdout,
            <<"Binary Subnet Mask:",
              get_binary_mask_from_raw_address(raw_address)>>)
    /\ pc' = "first"
    /\ UNCHANGED <<given, raw_address, network_address, broadcast_address,
                   first_usable, penultimate_ip>>

\* lines 293-294
PrintFirstUsable ==
    /\ pc = "first"
    /\ first_usable' = first_usable_list(raw_address)
    /\ stdout' = Append(stdout,
            <<"First usable host IP:",
              get_first_usable_ip_address_from_raw_address(raw_address)>>)
    /\ pc' = "penultimate"
    /\ UNCHANGED <<given, raw_address, network_mask, network_address,
                   broadcast_address, penultimate_ip>>

\* lines 295-296
PrintPenultimateUsable ==
    /\ pc = "penultimate"
    /\ penultimate_ip' = penultimate_ip_list(raw_address)
    /\ stdout' = Append(stdout,
            <<"Penultimate usable host IP:",
              get_penultimate_usable_ip_address_from_raw_address(raw_address)>>)
    /\ pc' = "hosts"
    /\ UNCHANGED <<given, raw_address, network_mask, network_address,
                   broadcast_address, first_usable>>

\* lines 297-298
PrintHosts ==
    /\ pc = "hosts"
    /\ stdout' = Append(stdout,
            <<"Number of usable Hosts:",
              get_number_of_usable_hosts_from_raw_address(raw_address)>>)
    /\ pc' = "class"
    /\ UNCHANGED <<given, raw_address, network_mask, network_address,
                   broadcast_address, first_usable, penultimate_ip>>

\* line 299
PrintClass ==
    /\ pc = "class"
    /\ stdout' = Append(stdout,
            <<"IP class:", get_ip_class_from_raw_address(raw_address)>>)
    /\ pc' = "private"
    /\ UNCHANGED <<given, raw_address, network_mask, network_address,
                   broadcast_address, first_usable, penultimate_ip>>

\* line 300
PrintPrivate ==
    /\ pc = "private"
    /\ stdout' = Append(stdout,
            <<"IP type private:",
              check_private_ip_address_from_raw_address(raw_address)>>)
    /\ pc' = "done"
    /\ UNCHANGED <<given, raw_address, network_mask, network_address,
                   broadcast_address, first_usable, penultimate_ip>>

Next ==
    \/ Input
    \/ PrintIp
    \/ PrintNetwork
    \/ PrintBroadcast
    \/ PrintBinaryMask
    \/ PrintFirstUsable
    \/ PrintPenultimateUsable
    \/ PrintHosts
    \/ PrintClass
    \/ PrintPrivate

Spec == Init /\ [][Next]_vars

---------------------------------------------------------------------------
(* Reading the results *)

\* the number of fields get_info has printed
Printed == Len(stdout)

\* the value of the n-th printed field
Field(n) == stdout[n][2]

\* bit i of a 4-byte list, bit 0 the most significant bit of the first byte
Bit(bytes, i) == (bytes[(i \div 8) + 1] \div Pow2(7 - (i % 8))) % 2

IsByteAddress(bytes) ==
    Len(bytes) = 4 /\ \A k \in 1..4 : bytes[k] \in Octets

\* the dotted-decimal text of a byte address, no leading zeros
Dotted(bytes) ==
    Canonical(bytes[1]) \o <<".">> \o Canonical(bytes[2]) \o <<".">> \o
    Canonical(bytes[3]) \o <<".">> \o Canonical(bytes[4])

\* a byte address read as one big-endian 32-bit number
Word(bytes) == <<bytes[1] * 256 + bytes[2], bytes[3] * 256 + bytes[4]>>

\* sum and order of two numbers <<hi, lo>>
BigAdd(x, y) == BigNorm(x[1] + y[1], x[2] + y[2])

BigLess(x, y) == x[1] < y[1] \/ (x[1] = y[1] /\ x[2] < y[2])

BigLeq(x, y) == x = y \/ BigLess(x, y)

\* 2^(32-p) - 2 written out limb by limb
HostCount(p) ==
    LET e == 32 - p
    IN  IF e = 0 THEN <<-1, 65535>>
        ELSE IF e < 16 THEN <<0, Pow2(e) - 2>>
        ELSE IF e = 16 THEN <<0, 65534>>
        ELSE <<Pow2(e - 16) - 1, 65534>>

---------------------------------------------------------------------------
(* Claims *)

\* C1: for every prefix length p in 0..32 the list get_network_mask returns
\* has 4 bytes in 0..255 whose bit i (0 = most significant bit of the first
\* byte) is 1 exactly when i < p; p = 0 gives [0,0,0,0], p = 32 gives
\* [255,255,255,255].
C1_MaskBits ==
    Printed >= 4 =>
        /\ IsByteAddress(network_mask)
        /\ \A i \in 0..31 : (Bit(network_mask, i) = 1) <=> (i < given.prefix)
        /\ given.prefix = 0 => network_mask = <<0, 0, 0, 0>>
        /\ given.prefix = 32 => network_mask = <<255, 255, 255, 255>>

C1_Witness ==
    /\ Printed >= 4
    /\ given.prefix = 9
    /\ network_mask = <<255, 128, 0, 0>>

\* C2: the network address returned is the dotted text of the bytewise AND
\* of the address with the mask: its highest p bits are those of the address
\* and its lowest 32-p bits are zero.
C2_NetworkBits ==
    Printed >= 2 =>
        /\ IsByteAddress(network_address)
        /\ \A i \in 0..31 :
              Bit(network_address, i) =
                  IF i < given.prefix THEN Bit(given.addr, i) ELSE 0
        /\ Field(2) = Dotted(network_address)

C2_Witness ==
    /\ Printed >= 2
    /\ given.addr = <<91, 124, 230, 205>>
    /\ given.prefix = 30
    /\ network_address = <<91, 124, 230, 204>>

\* C3: the broadcast address returned is the dotted text of the bytewise OR
\* of the address with the inverted mask: its highest p bits are those of
\* the address and its lowest 32-p bits are one.
C3_BroadcastBits ==
    Printed >= 3 =>
        /\ IsByteAddress(broadcast_address)
        /\ \A i \in 0..31 :
              Bit(broadcast_address, i) =
                  IF i < given.prefix THEN Bit(given.addr, i) ELSE 1
        /\ Field(3) = Dotted(broadcast_address)

C3_Witness ==
    /\ Printed >= 3
    /\ given.addr = <<91, 124, 230, 205>>
    /\ given.prefix = 30
    /\ broadcast_address = <<91, 124, 230, 207>>

\* C4: for every valid input, every byte address produced (network mask,
\* network address, broadcast address, first usable host, penultimate usable
\* host) has exactly 4 elements, each in 0..255.
C4_AllByteAddresses ==
    /\ Printed >= 2 => IsByteAddress(network_address)
    /\ Printed >= 3 => IsByteAddress(broadcast_address)
    /\ Printed >= 4 => IsByteAddress(network_mask)
    /\ Printed >= 5 => IsByteAddress(first_usable)
    /\ Printed >= 6 => IsByteAddress(penultimate_ip)

\* C5: for every prefix length p in 0..32 the host count returned is exactly
\* 2^(32-p) - 2, unclamped (/8 gives 16777214, /30 gives 2), whatever the
\* address octets.
C5_HostCount ==
    Printed >= 7 =>
        /\ Field(7) = HostCount(given.prefix)
        /\ given.prefix >= 2 =>
              Field(7)[1] * 65536 + Field(7)[2] = Pow2(32 - given.prefix) - 2
        /\ given.prefix = 8 => Field(7)[1] * 65536 + Field(7)[2] = 16777214
        /\ given.prefix = 30 => Field(7) = <<0, 2>>

C5_Witness ==
    /\ Printed >= 7
    /\ given.prefix = 8
    /\ Field(7) = <<255, 65534>>

\* C6 as claimed: the host count returned for prefix length 31 is -1 and the
\* one returned for prefix length 32 is 0.
C6_AsClaimed ==
    Printed >= 7 =>
        /\ given.prefix = 31 => Field(7) = <<-1, 65535>>
        /\ given.prefix = 32 => Field(7) = <<0, 0>>

\* C6 as amended: the host count returned for prefix length 31 is 0 and the
\* one returned for prefix length 32 is -1.
C6_EdgeHostCounts ==
    Printed >= 7 =>
        /\ given.prefix = 31 => Field(7) = <<0, 0>>
        /\ given.prefix = 32 =>
              /\ Field(7) = <<-1, 65535>>
              /\ Field(7)[1] * 65536 + Field(7)[2] = -1

C6_Witness ==
    /\ Printed >= 7
    /\ given.prefix = 32
    /\ Field(7) = <<-1, 65535>>

\* C7: for every well-formed raw address, octets typed with leading zeros
\* included, the 'IP address' field of the report is the dotted-decimal text
\* of the octets with the leading zeros removed.
C7_ReportedIpCanonical ==
    Printed >= 1 => Field(1) = Dotted(given.addr)

\* C8: the class returned is A iff the first octet is in 1..126, B iff in
\* 128..191, C iff in 192..223, D iff in 224..239, E iff in 240..247 and
\* Unknown for every other first octet (0, 127, 248..255); it is one of the
\* six and decided by the first octet alone.
C8_Class ==
    Printed >= 8 =>
        LET f == given.addr[1]
            c == Field(8)
        IN  /\ c \in {"A", "B", "C", "D", "E", "Unknown class"}
            /\ (c = "A") <=> (f \in 1..126)
            /\ (c = "B") <=> (f \in 128..191)
            /\ (c = "C") <=> (f \in 192..223)
            /\ (c = "D") <=> (f \in 224..239)
            /\ (c = "E") <=> (f \in 240..247)
            /\ (c = "Unknown class") <=> (f \in {0, 127} \cup (248..255))

C8_Witness ==
    /\ Printed >= 8
    /\ given.addr[1] = 247
    /\ Field(8) = "E"

\* C9: for every prefix length p in 0..30, reading the 4-byte results as
\* 32-bit big-endian numbers, the first usable address is network + 1, the
\* penultimate usable address is broadcast - 2, and
\* network < first usable <= penultimate usable < broadcast; the change of
\* the last byte needs no carry and no borrow.
C9_UsableHosts ==
    (Printed >= 6 /\ given.prefix <= 30) =>
        /\ IsByteAddress(first_usable)
        /\ IsByteAddress(penultimate_ip)
        /\ SubSeq(first_usable, 1, 3) = SubSeq(network_address, 1, 3)
        /\ SubSeq(penultimate_ip, 1, 3) = SubSeq(broadcast_address, 1, 3)
        /\ Word(first_usable) = BigAdd(Word(network_address), <<0, 1>>)
        /\ Word(penultimate_ip) = BigSub(Word(broadcast_address), <<0, 2>>)
        /\ BigLess(Word(network_address), Word(first_usable))
        /\ BigLeq(Word(first_usable), Word(penultimate_ip))
        /\ BigLess(Word(penultimate_ip), Word(broadcast_address))
        /\ Field(5) = Dotted(first_usable)
        /\ Field(6) = Dotted(penultimate_ip)

C9_Witness ==
    /\ Printed >= 6
    /\ given.prefix = 30
    /\ given.addr = <<91, 124, 230, 205>>
    /\ first_usable = <<91, 124, 230, 205>>
    /\ penultimate_ip = first_usable

\* C10: for every prefix length p in 0..31, reading addresses as 32-bit
\* big-endian numbers, network <= address <= broadcast, and the number of
\* addresses strictly between network and broadcast,
\* broadcast - network - 1, is the host count returned for the same input.
C10_HostsBetween ==
    (Printed >= 7 /\ given.prefix <= 31) =>
        /\ BigLeq(Word(network_address), Word(given.addr))
        /\ BigLeq(Word(given.addr), Word(broadcast_address))
        /\ BigSub(BigSub(Word(broadcast_address), Word(network_address)),
                  <<0, 1>>) = Field(7)

C10_Witness ==
    /\ Printed >= 7
    /\ given.prefix = 0
    /\ network_address = <<0, 0, 0, 0>>
    /\ broadcast_address = <<255, 255, 255, 255>>
    /\ Field(7) = <<65535, 65534>>

===========================================================================
